---------------------------- MODULE Spec2Model ----------------------------
(***************************************************************************)
(* A model of the countries application: the Region and Country tables     *)
(* (countries/models.py), the update_country_listing management command    *)
(* (countries/management/commands/update_country_listing.py) and the       *)
(* stats view (countries/views.py).                                        *)
(***************************************************************************)
EXTENDS Integers, Sequences, FiniteSets

VARIABLES
    regions,         \* the Region table: a set of rows [id, name]
    countries,       \* the Country table: a set of rows
    pc,              \* position of the command: "idle", "process", "done"
    url,             \* options["url"] of the current invocation
    response,        \* what requests.get / response.json() produced
    countries_data,  \* the parsed list handed to _process_countries_data
    outcome,         \* how the invocation ended
    summary,         \* the counters of _process_countries_data
    saved,           \* the tables as they were when the invocation started
    rerun,           \* the invocation repeats the previous one
    stats_response,  \* the last response of the stats view
    ops,             \* number of runs of the command started so far
    txns,            \* runs of the command that overlap: each one's transaction
    commits          \* the overlapping runs that committed, in commit order

vars == <<regions, countries, pc, url, response, countries_data, outcome,
          summary, saved, rerun, stats_response, ops, txns, commits>>

\* what one run of the command at a time reads and writes
commandVars == <<pc, url, response, countries_data, outcome, summary, saved,
                 rerun, stats_response, ops>>

(***************************************************************************)
(* Bounds of the model.                                                    *)
(***************************************************************************)
MaxLen == 2
MaxRuns == 1
MaxRows == 2

(***************************************************************************)
(* Small helpers.                                                          *)
(***************************************************************************)
RECURSIVE SeqsUpTo(_, _)
SeqsUpTo(S, n) ==
    IF n = 0 THEN {<<>>}
    ELSE LET shorter == SeqsUpTo(S, n - 1)
         IN  shorter \cup {Append(s, x) : s \in {t \in shorter : Len(t) = n - 1}, x \in S}

MaxOf(S) == IF S = {} THEN 0 ELSE CHOOSE m \in S : \A x \in S : x <= m

RECURSIVE SumOver(_, _)
SumOver(f, S) ==
    IF S = {} THEN 0
    ELSE LET x == CHOOSE y \in S : TRUE
         IN  f[x] + SumOver(f, S \ {x})

(***************************************************************************)
(* The source document: a JSON array of objects.  An object is modelled by *)
(* the set of keys it has and the value under each key; a key that is not  *)
(* in the object holds a placeholder that no code path may read.           *)
(***************************************************************************)
required_fields == <<"name", "alpha2Code", "alpha3Code", "population", "region">>

Fields == {required_fields[i] : i \in 1..Len(required_fields)}

Obj(n, a2, a3, p, r) ==
    [keys |-> Fields, name |-> n, alpha2Code |-> a2, alpha3Code |-> a3,
     population |-> p, region |-> r]

Without(e, f) ==
    IF f = "population"
    THEN [e EXCEPT !.keys = @ \ {f}, !.population = -1]
    ELSE [e EXCEPT !.keys = @ \ {f}, ![f] = "<absent>"]

NigeriaAfrica == Obj("Nigeria", "NG", "NGA", 1, "Africa")
NigeriaAsia   == Obj("Nigeria", "NI", "NIG", 2, "Asia")
EgyptAfrica   == Obj("Egypt", "EG", "EGY", 2, "Africa")

WellFormed == {NigeriaAfrica, NigeriaAsia, EgyptAfrica}

Malformed == {Without(NigeriaAfrica, f) : f \in Fields}

Elements == WellFormed \cup Malformed

Inputs == SeqsUpTo(Elements, MaxLen)

\* `field in country_data` and country_data.get(field, default)
Has(e, f) == f \in e.keys

\* (mutant) country_data[field] in place of country_data.get(field, default)
Subscript(e, f, default) == e[f]

Get(e, f, default) == IF Has(e, f) THEN e[f] ELSE default

(***************************************************************************)
(* The tables.  A new row gets the next id after the largest one in use,   *)
(* in the table as the writer sees it or in rows (of a transaction that    *)
(* has not committed) that it does not see.                                *)
(***************************************************************************)
NextId(rows, unseen) == MaxOf({r.id : r \in rows} \cup unseen) + 1

NewId(rows) == NextId(rows, {})

Store(rs, cs) == [regions |-> rs, countries |-> cs]

EmptyStore == Store({}, {})

\* (mutant) a plain create in place of get_or_create
CreateRegionAlways(rs, region_name, unseen) ==
    LET new == [id |-> NextId(rs, unseen), name |-> region_name]
    IN  [raised |-> FALSE, id |-> new.id, created |-> TRUE, regions |-> rs \cup {new}]

\* Region.objects.get_or_create(name=region_name)
GetOrCreateRegion(rs, region_name, unseen) ==
    LET found == {r \in rs : r.name = region_name}
    IN  IF Cardinality(found) > 1
        THEN [raised |-> TRUE, id |-> 0, created |-> FALSE, regions |-> rs]
        ELSE IF Cardinality(found) = 1
        THEN [raised |-> FALSE, id |-> (CHOOSE r \in found : TRUE).id,
              created |-> FALSE, regions |-> rs]
        ELSE LET new == [id |-> NextId(rs, unseen), name |-> region_name]
             IN  [raised |-> FALSE, id |-> new.id, created |-> TRUE,
                  regions |-> rs \cup {new}]

NewCountry(cs, name, defaults, unseen) ==
    [id |-> NextId(cs, unseen), name |-> name,
     alpha2Code |-> defaults.alpha2Code, alpha3Code |-> defaults.alpha3Code,
     population |-> defaults.population, region |-> defaults.region]

\* (mutant) a plain create in place of update_or_create
CreateCountryAlways(cs, name, defaults, unseen) ==
    [raised |-> FALSE, created |-> TRUE,
     countries |-> cs \cup {NewCountry(cs, name, defaults, unseen)}]

\* (mutant) get_or_create in place of update_or_create: a country that exists
\* keeps its values
GetOrCreateCountry(cs, name, defaults, unseen) ==
    LET found == {c \in cs : c.name = name}
    IN  IF Cardinality(found) > 1
        THEN [raised |-> TRUE, created |-> FALSE, countries |-> cs]
        ELSE IF Cardinality(found) = 1
        THEN [raised |-> FALSE, created |-> FALSE, countries |-> cs]
        ELSE [raised |-> FALSE, created |-> TRUE,
              countries |-> cs \cup {NewCountry(cs, name, defaults, unseen)}]

\* Country.objects.update_or_create(name=..., defaults={...})
UpdateOrCreateCountry(cs, name, defaults, unseen) ==
    LET found == {c \in cs : c.name = name}
    IN  IF Cardinality(found) > 1
        THEN [raised |-> TRUE, created |-> FALSE, countries |-> cs]
        ELSE IF Cardinality(found) = 1
        THEN LET old == CHOOSE c \in found : TRUE
                 upd == [old EXCEPT !.alpha2Code = defaults.alpha2Code,
                                    !.alpha3Code = defaults.alpha3Code,
                                    !.population = defaults.population,
                                    !.region = defaults.region]
             IN  [raised |-> FALSE, created |-> FALSE,
                  countries |-> (cs \ {old}) \cup {upd}]
        ELSE [raised |-> FALSE, created |-> TRUE,
              countries |-> cs \cup {NewCountry(cs, name, defaults, unseen)}]

(***************************************************************************)
(* _process_countries_data.                                                *)
(***************************************************************************)
\* The required-field check: each missing field writes a warning, and the
\* `continue` that follows continues the loop over the fields.
Warnings(e) == {f \in Fields : ~Has(e, f)}

\* Whether the check leaves the loop body for this element: it never does.
SkipsElement(e) == FALSE

NoCounts == [regions_created |-> 0, countries_created |-> 0, countries_updated |-> 0]

NoIds == [regions |-> {}, countries |-> {}]

\* The state of the method on entry: the tables as its transaction sees them,
\* the ids taken by rows it does not see, and its counters.
Enter(rs, cs, unseen) ==
    [regions |-> rs, countries |-> cs, unseen |-> unseen, raised |-> FALSE,
     counts |-> NoCounts]

StartAcc(rs, cs) == Enter(rs, cs, NoIds)

\* One pass of the loop body over the tables of acc.
ProcessElement(acc, e) ==
    IF SkipsElement(e) THEN acc
    ELSE
    LET region_name == Get(e, "region", "")
        g == GetOrCreateRegion(acc.regions, region_name, acc.unseen.regions)
    IN  IF g.raised THEN [acc EXCEPT !.raised = TRUE]
        ELSE
        LET acc1 == [acc EXCEPT !.regions = g.regions,
                                !.counts.regions_created =
                                    @ + (IF g.created THEN 1 ELSE 0)]
        IN  \* country_data["name"], ["alpha2Code"], ["alpha3Code"]: KeyError
            IF ~Has(e, "name") \/ ~Has(e, "alpha2Code") \/ ~Has(e, "alpha3Code")
            THEN [acc1 EXCEPT !.raised = TRUE]
            ELSE
            LET defaults == [alpha2Code |-> e.alpha2Code,
                             alpha3Code |-> e.alpha3Code,
                             population |-> Get(e, "population", 0),
                             region |-> g.id]
                u == UpdateOrCreateCountry(acc1.countries, e.name, defaults,
                                           acc.unseen.countries)
            IN  IF u.raised THEN [acc1 EXCEPT !.raised = TRUE]
                ELSE [acc1 EXCEPT !.countries = u.countries,
                                  !.counts.countries_created =
                                      @ + (IF u.created THEN 1 ELSE 0),
                                  !.counts.countries_updated =
                                      @ + (IF u.created THEN 0 ELSE 1)]

\* The for loop: it stops at the first exception.
RECURSIVE ProcessLoop(_, _, _)
ProcessLoop(acc, data, i) ==
    IF i > Len(data) \/ acc.raised THEN acc
    ELSE ProcessLoop(ProcessElement(acc, data[i]), data, i + 1)

\* (mutant) the method without @transaction.atomic
NotAtomic(before, after) == after

\* @transaction.atomic: an exception leaving the method rolls its writes back.
Atomic(before, after) ==
    IF after.raised
    THEN [after EXCEPT !.regions = before.regions, !.countries = before.countries]
    ELSE after

ProcessCountriesData(rs, cs, data) ==
    Atomic(Store(rs, cs), ProcessLoop(StartAcc(rs, cs), data, 1))

(***************************************************************************)
(* handle: URL validation, the request, the shape of the document.         *)
(***************************************************************************)
\* URLs are sequences of characters: "h" a scheme letter, "g" a host letter,
\* "c" a path letter.  DefaultUrl has the shape of the --url default.
DefaultUrl == <<"h", ":", "/", "/", "g", "/", "c">>

Urls == { DefaultUrl,
          <<"/", "/", "g", "/", "c">>,
          <<"h", ":", "/", "c">>,
          <<"h", ":", "/", "/", "/", "c">>,
          <<"g", "/", "c">>,
          <<>> }

SchemeChars == {"h"}

IndexOf(s, ch) ==
    LET hits == {i \in 1..Len(s) : s[i] = ch}
    IN  IF hits = {} THEN 0 ELSE CHOOSE i \in hits : \A j \in hits : i <= j

\* urllib.parse.urlparse, as far as scheme and netloc go
urlparse(u) ==
    LET colon == IndexOf(u, ":")
        hasScheme == /\ colon > 1
                     /\ \A i \in 1..(colon - 1) : u[i] \in SchemeChars
        scheme == IF hasScheme THEN SubSeq(u, 1, colon - 1) ELSE <<>>
        rest == IF hasScheme THEN SubSeq(u, colon + 1, Len(u)) ELSE u
        slashes == Len(rest) >= 2 /\ rest[1] = "/" /\ rest[2] = "/"
        tail == IF slashes THEN SubSeq(rest, 3, Len(rest)) ELSE <<>>
        stop == IndexOf(tail, "/")
        netloc == IF ~slashes THEN <<>>
                  ELSE IF stop = 0 THEN tail ELSE SubSeq(tail, 1, stop - 1)
    IN  [scheme |-> scheme, netloc |-> netloc]

\* all([parsed_url.scheme, parsed_url.netloc])
UrlOk(u) == LET p == urlparse(u) IN p.scheme # <<>> /\ p.netloc # <<>>

\* What requests.get, raise_for_status and response.json() can give: a
\* failed request, a body that is no JSON, or a JSON value.
JsonList(items) == [type |-> "list", items |-> items]

JsonObject == [type |-> "object", items |-> <<>>]

Responses(docs) ==
    {[kind |-> "http_error", json |-> JsonObject],
     [kind |-> "bad_json", json |-> JsonObject],
     [kind |-> "json", json |-> JsonObject]}
    \cup {[kind |-> "json", json |-> JsonList(d)] : d \in docs}

\* (mutant) the check of the document's type left out
AnyJson(v) == TRUE

\* isinstance(countries_data, list)
IsList(v) == v.type = "list"

NoSummary == NoCounts

(***************************************************************************)
(* The stats view.                                                         *)
(***************************************************************************)
\* A value of the query that may be NULL / None.
Null == [null |-> TRUE, value |-> 0]

Val(n) == [null |-> FALSE, value |-> n]

\* (mutant) the value as the query gave it
AsQueried(x) == x

\* x or 0
OrZero(x) == IF x.null \/ x.value = 0 THEN Val(0) ELSE x

NullCountry ==
    [id |-> 0, name |-> "", alpha2Code |-> "", alpha3Code |-> "",
     population |-> 0, region |-> 0]

\* Region LEFT OUTER JOIN Country: a region without countries keeps one row
LeftJoin(rs, cs) ==
    {[region |-> p[1], matched |-> TRUE, country |-> p[2]] :
        p \in {q \in rs \X cs : q[2].region = q[1].id}}
    \cup {[region |-> r, matched |-> FALSE, country |-> NullCountry] :
        r \in {x \in rs : \A c \in cs : c.region # x.id}}

\* Count('countries') over a group of joined rows
CountCountries(grp) == Val(Cardinality({row \in grp : row.matched}))

\* Sum('countries__population') over a group: NULL when no country is joined
SumPopulation(grp) ==
    LET joined == {row \in grp : row.matched}
    IN  IF joined = {} THEN Null
        ELSE Val(SumOver([row \in joined |-> row.country.population], joined))

\* Region.objects.annotate(...).values(...): the joined rows grouped by the
\* region's id, one result row per group
Annotate(rs, cs) ==
    LET rows == LeftJoin(rs, cs)
    IN  [id \in {row.region.id : row \in rows} |->
            LET grp == {row \in rows : row.region.id = id}
            IN  [name |-> (CHOOSE row \in grp : TRUE).region.name,
                 number_countries |-> CountCountries(grp),
                 total_population |-> SumPopulation(grp)]]

StatsView(rs, cs) ==
    LET regions_data == Annotate(rs, cs)
    IN  [status |-> 200,
         regions |-> [id \in DOMAIN regions_data |->
             [regions_data[id] EXCEPT
                 !.number_countries = OrZero(@),
                 !.total_population = OrZero(@)]]]

\* The except branch: JsonResponse({"error": ...}, status=500)
ErrorResponse == [status |-> 500, regions |-> <<>>]

NoResponse == [status |-> 0, regions |-> <<>>]

(***************************************************************************)
(* The initial state and the operations.                                   *)
(***************************************************************************)
\* Two runs of the command may overlap.
Runners == {"first", "second"}

\* A run's transaction: the document, the position of the loop, the rows it
\* has written and not committed (created regions, created countries, new
\* versions of countries that are in the table), and whether it began while
\* the other run's transaction was open.
NoTxn ==
    [state |-> "idle", data |-> <<>>, pos |-> 1, regions_new |-> {},
     countries_new |-> {}, countries_upd |-> {}, overlapped |-> FALSE]

InitWith(rs, cs) ==
    /\ regions = rs
    /\ countries = cs
    /\ pc = "idle"
    /\ url = <<>>
    /\ response = "none"
    /\ countries_data = <<>>
    /\ outcome = "none"
    /\ summary = NoSummary
    /\ saved = EmptyStore
    /\ rerun = FALSE
    /\ stats_response = NoResponse
    /\ ops = 0
    /\ txns = [t \in Runners |-> NoTxn]
    /\ commits = <<>>

\* The tables are empty, as the migrations leave them.
Init == InitWith({}, {})

\* The command ends with a CommandError before _process_countries_data.
Fails(u, kind, error) ==
    /\ pc' = "done"
    /\ url' = u
    /\ response' = kind
    /\ countries_data' = <<>>
    /\ outcome' = error
    /\ summary' = NoSummary
    /\ saved' = Store(regions, countries)
    /\ rerun' = FALSE
    /\ stats_response' = NoResponse
    /\ UNCHANGED <<regions, countries>>

\* handle with a URL that fails the validation
HandleInvalidUrl(u) ==
    /\ ~UrlOk(u)
    /\ Fails(u, "none", "url_error")

\* handle from the request to the call of _process_countries_data
HandleFetch(u, resp) ==
    /\ UrlOk(u)
    /\ IF resp.kind = "http_error" THEN Fails(u, "http_error", "request_error")
       ELSE IF resp.kind = "bad_json" THEN Fails(u, "bad_json", "json_error")
       ELSE IF ~IsList(resp.json) THEN Fails(u, resp.json.type, "unexpected_error")
       ELSE /\ pc' = "process"
            /\ url' = u
            /\ response' = resp.json.type
            /\ countries_data' = resp.json.items
            /\ outcome' = "none"
            /\ summary' = NoSummary
            /\ saved' = Store(regions, countries)
            /\ rerun' = FALSE
            /\ stats_response' = NoResponse
            /\ UNCHANGED <<regions, countries>>

\* handle: the operator starts the command with some URL, and the remote end
\* answers with some document out of docs, or fails
Handle(docs) ==
    /\ pc = "idle"
    /\ \E u \in Urls :
        \/ HandleInvalidUrl(u)
        \/ \E resp \in Responses(docs) : HandleFetch(u, resp)

\* _process_countries_data and the end of handle
Process ==
    /\ pc = "process"
    /\ LET r == ProcessCountriesData(regions, countries, countries_data)
       IN  /\ regions' = r.regions
           /\ countries' = r.countries
           /\ summary' = r.counts
           /\ outcome' = IF r.raised THEN "unexpected_error" ELSE "success"
    /\ pc' = "done"
    /\ UNCHANGED <<url, response, countries_data, saved, rerun, stats_response>>

\* the command is run once more with the same URL, the document unchanged
HandleAgain ==
    /\ pc = "done"
    /\ outcome = "success"
    /\ ~rerun
    /\ pc' = "process"
    /\ rerun' = TRUE
    /\ saved' = Store(regions, countries)
    /\ outcome' = "none"
    /\ summary' = NoSummary
    /\ UNCHANGED <<regions, countries, url, response, countries_data, stats_response>>

\* the command has returned (or raised): its locals are gone
Exit ==
    /\ pc = "done"
    /\ pc' = "idle"
    /\ url' = <<>>
    /\ response' = "none"
    /\ countries_data' = <<>>
    /\ outcome' = "none"
    /\ summary' = NoSummary
    /\ saved' = EmptyStore
    /\ rerun' = FALSE
    /\ UNCHANGED <<regions, countries, stats_response>>

\* (mutant) on_delete=models.DO_NOTHING
DoNothing(cs, id) == cs

\* on_delete=models.CASCADE: the countries of a deleted region go with it
Cascade(cs, id) == {c \in cs : c.region # id}

\* region.delete()
DeleteRegion(id) ==
    /\ pc = "idle"
    /\ \E r \in regions : r.id = id
    /\ regions' = {r \in regions : r.id # id}
    /\ countries' = Cascade(countries, id)
    /\ stats_response' = NoResponse
    /\ UNCHANGED <<pc, url, response, countries_data, outcome, summary, saved, rerun>>

\* Region.objects.create(name=...), as the tests' setUp does
CreateRegion(name) ==
    /\ pc = "idle"
    /\ NewId(regions) <= MaxRows
    /\ regions' = regions \cup {[id |-> NewId(regions), name |-> name]}
    /\ stats_response' = NoResponse
    /\ UNCHANGED <<countries, pc, url, response, countries_data, outcome, summary,
                   saved, rerun>>

\* Country.objects.create(name=..., ..., region=...), as the tests' setUp does
CreateCountry(e, r) ==
    /\ pc = "idle"
    /\ NewId(countries) <= MaxRows
    /\ r \in regions
    /\ countries' = countries \cup
           {[id |-> NewId(countries), name |-> e.name, alpha2Code |-> e.alpha2Code,
             alpha3Code |-> e.alpha3Code, population |-> e.population,
             region |-> r.id]}
    /\ stats_response' = NoResponse
    /\ UNCHANGED <<regions, pc, url, response, countries_data, outcome, summary,
                   saved, rerun>>

\* GET /stats
Stats ==
    /\ pc = "idle"
    /\ stats_response = NoResponse
    /\ stats_response' = StatsView(regions, countries)
    /\ UNCHANGED <<regions, countries, pc, url, response, countries_data, outcome,
                   summary, saved, rerun>>

\* GET /stats, the query raising (the database cannot be read)
StatsError ==
    /\ pc = "idle"
    /\ stats_response = NoResponse
    /\ stats_response' = ErrorResponse
    /\ UNCHANGED <<regions, countries, pc, url, response, countries_data, outcome,
                   summary, saved, rerun>>

(***************************************************************************)
(* The command run any number of times, one run after the other, on        *)
(* tables that start empty and that nothing else writes.                   *)
(***************************************************************************)
Next ==
    \/ Handle(Inputs) /\ UNCHANGED <<ops, txns, commits>>
    \/ Process /\ UNCHANGED <<ops, txns, commits>>
    \/ HandleAgain /\ UNCHANGED <<ops, txns, commits>>
    \/ Exit /\ UNCHANGED <<ops, txns, commits>>
    \/ Stats /\ UNCHANGED <<ops, txns, commits>>
    \/ StatsError /\ UNCHANGED <<ops, txns, commits>>

Spec == Init /\ [][Next]_vars

(***************************************************************************)
(* The same command over tables that are also filled and emptied directly, *)
(* so that a table may hold several rows of one name.  At most MaxRuns     *)
(* runs of the command, each on one of a few documents.                    *)
(***************************************************************************)
RegionNames == {"Africa", "Asia"}

Documents ==
    { <<NigeriaAfrica, EgyptAfrica>>,
      <<NigeriaAsia, NigeriaAfrica>>,
      <<EgyptAfrica, Without(NigeriaAfrica, "name")>>,
      <<EgyptAfrica, Without(NigeriaAsia, "alpha2Code")>>,
      <<Without(NigeriaAfrica, "population"), Without(NigeriaAfrica, "alpha3Code")>>,
      <<Without(NigeriaAfrica, "region"), EgyptAfrica>> }

NextStore ==
    \/ (\E name \in RegionNames : CreateRegion(name)) /\ UNCHANGED <<ops, txns, commits>>
    \/ (\E e \in {NigeriaAfrica, EgyptAfrica}, r \in regions : CreateCountry(e, r))
           /\ UNCHANGED <<ops, txns, commits>>
    \/ (\E id \in {r.id : r \in regions} : DeleteRegion(id)) /\ UNCHANGED <<ops, txns, commits>>
    \/ Stats /\ UNCHANGED <<ops, txns, commits>>
    \/ StatsError /\ UNCHANGED <<ops, txns, commits>>
    \/ Handle(Documents) /\ ops < MaxRuns /\ ops' = ops + 1 /\ UNCHANGED <<txns, commits>>
    \/ Process /\ UNCHANGED <<ops, txns, commits>>
    \/ Exit /\ UNCHANGED <<ops, txns, commits>>

SpecStore == Init /\ [][NextStore]_vars

(***************************************************************************)
(* Two runs of the command that may overlap, each in its own transaction.  *)
(* A transaction reads the committed rows and its own writes; the store    *)
(* lets one transaction at a time write a given row, and it may refuse a   *)
(* write while another transaction has writes pending.                     *)
(***************************************************************************)
Other(t) == CHOOSE o \in Runners : o # t

Active(t) == txns[t].state = "active"

\* The tables as transaction t sees them.
SeenRegions(t) == regions \cup txns[t].regions_new

SeenCountries(t) ==
    {c \in countries : \A u \in txns[t].countries_upd : u.id # c.id}
    \cup txns[t].countries_upd \cup txns[t].countries_new

\* The ids of the rows that the other transaction created.
Unseen(t) ==
    [regions |-> {r.id : r \in txns[Other(t)].regions_new},
     countries |-> {c.id : c \in txns[Other(t)].countries_new}]

\* The loop body of t on its next element.
StepOf(t) ==
    ProcessElement(Enter(SeenRegions(t), SeenCountries(t), Unseen(t)),
                   txns[t].data[txns[t].pos])

\* The committed rows of which the step of t writes a new version.
Rewritten(t) ==
    {c.id : c \in {x \in StepOf(t).countries : x \notin SeenCountries(t)}}
    \cap {c.id : c \in countries}

\* The rows that the other transaction holds locked.
LockedByOther(t) == {c.id : c \in txns[Other(t)].countries_upd}

\* handle up to the entry of _process_countries_data: the transaction begins
Begin(t, data) ==
    /\ txns[t].state = "idle"
    /\ txns' = [txns EXCEPT ![t] = [NoTxn EXCEPT !.state = "active", !.data = data,
                                                 !.overlapped = Active(Other(t))]]
    /\ UNCHANGED <<regions, countries, commits>>

\* one pass of the loop body in the transaction of t
Step(t) ==
    /\ Active(t)
    /\ txns[t].pos <= Len(txns[t].data)
    /\ LET a == StepOf(t)
       IN  IF a.raised
           THEN txns' = [txns EXCEPT ![t].state = "failed",
                                     ![t].regions_new = {},
                                     ![t].countries_new = {},
                                     ![t].countries_upd = {}]
           ELSE /\ Rewritten(t) \cap LockedByOther(t) = {}
                /\ txns' = [txns EXCEPT
                       ![t].pos = @ + 1,
                       ![t].regions_new = a.regions \ regions,
                       ![t].countries_new =
                           {c \in a.countries : \A x \in countries : x.id # c.id},
                       ![t].countries_upd =
                           {c \in a.countries \ countries :
                               \E x \in countries : x.id = c.id}]
    /\ UNCHANGED <<regions, countries, commits>>

\* the store refuses a write of t (a lock that is not granted): the exception
\* leaves the method and the transaction is rolled back
LockError(t) ==
    /\ Active(t)
    /\ txns[t].pos <= Len(txns[t].data)
    /\ Active(Other(t))
    /\ txns[Other(t)].regions_new \cup txns[Other(t)].countries_new
           \cup txns[Other(t)].countries_upd # {}
    /\ txns' = [txns EXCEPT ![t].state = "failed",
                            ![t].regions_new = {},
                            ![t].countries_new = {},
                            ![t].countries_upd = {}]
    /\ UNCHANGED <<regions, countries, commits>>

\* the loop has ended: the method returns and the transaction commits
Commit(t) ==
    /\ Active(t)
    /\ txns[t].pos > Len(txns[t].data)
    /\ regions' = SeenRegions(t)
    /\ countries' = SeenCountries(t)
    /\ txns' = [txns EXCEPT ![t].state = "committed"]
    /\ commits' = Append(commits, t)

OverlapDocuments ==
    { <<NigeriaAfrica>>,
      <<NigeriaAsia, EgyptAfrica>>,
      <<EgyptAfrica, NigeriaAfrica>> }

\* The tables a run left behind, or empty tables.
InitOverlap ==
    \E data \in {<<>>, <<NigeriaAfrica>>} :
        LET r == ProcessCountriesData({}, {}, data)
        IN  InitWith(r.regions, r.countries)

NextOverlap ==
    \/ (\E t \in Runners, data \in OverlapDocuments : Begin(t, data)) /\ UNCHANGED commandVars
    \/ (\E t \in Runners : Step(t)) /\ UNCHANGED commandVars
    \/ (\E t \in Runners : LockError(t)) /\ UNCHANGED commandVars
    \/ (\E t \in Runners : Commit(t)) /\ UNCHANGED commandVars

SpecOverlap == InitOverlap /\ [][NextOverlap]_vars

(***************************************************************************)
(* What the properties below speak of.                                     *)
(***************************************************************************)
\* The command has ended and _process_countries_data was called.
Processed == pc = "done" /\ response = "list"

Succeeded == Processed /\ outcome = "success"

Aborted == Processed /\ outcome = "unexpected_error"

Unchanged == regions = saved.regions /\ countries = saved.countries

\* The loop of the run that has ended, without the transaction around it.
LoopOfRun == ProcessLoop(StartAcc(saved.regions, saved.countries), countries_data, 1)

\* The last position of the document that carries the name of position i.
LastOfName(data, i) ==
    CHOOSE j \in i..Len(data) :
        /\ Has(data[j], "name") /\ data[j].name = data[i].name
        /\ \A k \in (j + 1)..Len(data) :
               ~(Has(data[k], "name") /\ data[k].name = data[i].name)

RegionNameOf(c) == (CHOOSE r \in regions : r.id = c.region).name

Complete(e) == e.keys = Fields

\* The URLs of the model that lack a scheme or a host, spelled out.
LacksSchemeOrHost(u) ==
    u \in { <<"/", "/", "g", "/", "c">>,
            <<"h", ":", "/", "c">>,
            <<"h", ":", "/", "/", "/", "c">>,
            <<"g", "/", "c">>,
            <<>> }

FailsEarly == LacksSchemeOrHost(url) \/ response \in {"http_error", "bad_json", "object"}

\* Of two runs that may overlap.
BothCommitted == Len(commits) = 2

Overlapped == \E t \in Runners : txns[t].overlapped

NamesOf(data) == {data[i].name : i \in 1..Len(data)}

RegionsOf(data) == {data[i].region : i \in 1..Len(data)}

(***************************************************************************)
(* C1: A run is all-or-nothing.  When an exception is raised while          *)
(* _process_countries_data works on some element, the Region and Country    *)
(* rows after the run are the rows before it; when none is raised, every    *)
(* element's writes are there: its country and its region exist.            *)
(***************************************************************************)
C1_AllOrNothing ==
    Processed =>
        /\ outcome \in {"unexpected_error", "success"}
        /\ outcome = "unexpected_error" => Unchanged
        /\ outcome = "success" =>
              \A i \in 1..Len(countries_data) :
                  /\ \E c \in countries : c.name = countries_data[i].name
                  /\ Has(countries_data[i], "region") =>
                         \E r \in regions : r.name = countries_data[i].region

\* A run that wrote a region and a country and then met two regions of one
\* name: get_or_create raised, and the rows written are gone.
C1_Witness ==
    /\ Aborted
    /\ \E r1, r2 \in saved.regions : r1 # r2 /\ r1.name = r2.name
    /\ LoopOfRun.raised
    /\ LoopOfRun.countries # saved.countries
    /\ LoopOfRun.regions # saved.regions
    /\ Unchanged

(***************************************************************************)
(* C2: An element that lacks a required field is skipped and the batch is   *)
(* not aborted: the run succeeds and leaves the rows that the document's    *)
(* complete elements alone would leave.                                     *)
(***************************************************************************)
C2_MissingFieldSkipsElement ==
    Processed =>
        LET complete == SelectSeq(countries_data, Complete)
            expected == ProcessLoop(StartAcc(saved.regions, saved.countries), complete, 1)
        IN  /\ outcome = "success"
            /\ regions = expected.regions
            /\ countries = expected.countries

(***************************************************************************)
(* C3: Import is idempotent.  A second run of the command on the document   *)
(* of a successful run succeeds, leaves every Region and Country row as the *)
(* first run left it, and creates no Region and no Country.                 *)
(***************************************************************************)
C3_Idempotent ==
    (pc = "done" /\ rerun) =>
        /\ outcome = "success"
        /\ Unchanged
        /\ summary.regions_created = 0
        /\ summary.countries_created = 0

\* The second of two runs that started from empty tables, on a document that
\* names one country twice with different values.
C3_Witness ==
    /\ pc = "done" /\ rerun /\ outcome = "success"
    /\ countries_data = <<NigeriaAfrica, NigeriaAsia>>
    /\ LET first == ProcessLoop(StartAcc({}, {}), countries_data, 1)
       IN  regions = first.regions /\ countries = first.countries
    /\ summary.countries_updated = 2

(***************************************************************************)
(* C4: No two Country rows have the same name, and after a successful run   *)
(* each country named in the document has the alpha2Code, alpha3Code,       *)
(* population and region of the last element that carries its name (a field *)
(* that element lacks reads as the importer's default); a Country that      *)
(* existed under that name is overwritten in place, otherwise one is        *)
(* created.                                                                 *)
(***************************************************************************)
C4_UpsertByName ==
    /\ \A c1, c2 \in countries : c1.name = c2.name => c1 = c2
    /\ Succeeded =>
          /\ \A i \in 1..Len(countries_data) :
                LET e == countries_data[LastOfName(countries_data, i)]
                IN  \E c \in countries :
                       /\ c.name = e.name
                       /\ c.alpha2Code = e.alpha2Code
                       /\ c.alpha3Code = e.alpha3Code
                       /\ c.population = (IF Has(e, "population") THEN e.population ELSE 0)
                       /\ RegionNameOf(c) = (IF Has(e, "region") THEN e.region ELSE "")
                       /\ \A old \in saved.countries : old.name = c.name => old.id = c.id
          /\ {c.id : c \in saved.countries} \subseteq {c.id : c \in countries}
          /\ Cardinality(countries) =
                 Cardinality(saved.countries) + summary.countries_created

\* A run that overwrote an existing country, the document naming it twice.
C4_Witness ==
    /\ Succeeded
    /\ countries_data = <<NigeriaAfrica, NigeriaAsia>>
    /\ \E old \in saved.countries : old.name = "Nigeria" /\ old.population = 0
    /\ \E c \in countries : c.name = "Nigeria" /\ c.population = 2
    /\ summary.countries_updated = 2

(***************************************************************************)
(* C5: After a successful run every region name of the document is the name *)
(* of exactly one Region row, however many elements carry it and whether or *)
(* not an earlier run created it; a Region is created only for a name that  *)
(* no row had.                                                              *)
(***************************************************************************)
C5_RegionOnce ==
    Succeeded =>
        /\ \A i \in 1..Len(countries_data) :
              Has(countries_data[i], "region") =>
                  Cardinality({r \in regions : r.name = countries_data[i].region}) = 1
        /\ saved.regions \subseteq regions
        /\ \A r \in regions \ saved.regions :
              /\ \A old \in saved.regions : old.name # r.name
              /\ \E i \in 1..Len(countries_data) :
                     r.name = Get(countries_data[i], "region", "")
        /\ Cardinality(regions \ saved.regions) = summary.regions_created

\* Two elements of one region that an earlier run had created, and a run
\* whose two elements share a region that is new.
C5_Witness ==
    /\ Succeeded
    /\ countries_data = <<NigeriaAfrica, EgyptAfrica>>
    /\ \E r \in saved.regions : r.name = "Africa"
    /\ summary.regions_created = 0
    /\ Cardinality({r \in regions : r.name = "Africa"}) = 1

(***************************************************************************)
(* C7: A run that fails before the loop leaves the tables as they were and  *)
(* ends in an error: when the URL lacks a scheme or a host, the request     *)
(* fails, the body is no JSON or the JSON value is no list, the command     *)
(* raises, _process_countries_data is not entered and no row changes.       *)
(***************************************************************************)
C7_EarlyFailure ==
    /\ pc = "process" => ~FailsEarly
    /\ (pc = "done" /\ FailsEarly) =>
          /\ outcome \in {"url_error", "request_error", "json_error", "unexpected_error"}
          /\ Unchanged
          /\ summary = NoSummary

\* A JSON object arrived while the tables held rows.
C7_Witness ==
    /\ pc = "done"
    /\ response = "object"
    /\ outcome = "unexpected_error"
    /\ countries # {}
    /\ Unchanged

C6_Stats ==
    stats_response.status = 200 =>
        /\ DOMAIN stats_response.regions = {r.id : r \in regions}
        /\ \A r \in regions :
              LET entry == stats_response.regions[r.id]
                  mine == {c \in countries : c.region = r.id}
              IN  /\ entry.name = r.name
                  /\ entry.number_countries = Val(Cardinality(mine))
                  /\ entry.total_population =
                         Val(SumOver([c \in mine |-> c.population], mine))

\* A response for a region of two countries and a region of none.
C6_Witness ==
    /\ stats_response.status = 200
    /\ \E r1, r2 \in regions :
          /\ Cardinality({c \in countries : c.region = r1.id}) = 2
          /\ stats_response.regions[r1.id].total_population = Val(3)
          /\ {c \in countries : c.region = r2.id} = {}
          /\ stats_response.regions[r2.id].total_population = Val(0)

(***************************************************************************)
(* C9: Every Country row references exactly one Region row of the table, in *)
(* every state that runs of the command, ended well or aborted, and         *)
(* deletions of regions lead to: a deleted region takes its countries with  *)
(* it, and a run of the command deletes no Region and changes no Region's   *)
(* name.                                                                    *)
(***************************************************************************)
C9_Ownership ==
    /\ \A c \in countries : Cardinality({r \in regions : r.id = c.region}) = 1
    /\ pc \in {"process", "done"} => saved.regions \subseteq regions

\* A region was deleted and took a country with it; another country stays.
C9_Witness ==
    /\ countries # {}
    /\ \A c \in countries : c.id > 1
    /\ \A r \in regions : r.id > 1
    /\ pc = "done" /\ outcome = "success"

(***************************************************************************)
(* C10: When two runs overlap and both commit, the last commit wins: every  *)
(* country name of both documents is the name of exactly one Country row,   *)
(* which carries the values that the run that committed last wrote, and     *)
(* every region name of either document is the name of exactly one Region   *)
(* row.                                                                     *)
(***************************************************************************)
C10_LastCommitWins ==
    (Overlapped /\ BothCommitted) =>
        LET one == txns[commits[1]].data
            last == txns[commits[2]].data
        IN  /\ \A n \in NamesOf(one) \cap NamesOf(last) :
                  /\ Cardinality({c \in countries : c.name = n}) = 1
                  /\ \E i \in 1..Len(last) :
                        /\ last[i].name = n
                        /\ LastOfName(last, i) = i
                        /\ \E c \in countries :
                              /\ c.name = n
                              /\ c.alpha2Code = last[i].alpha2Code
                              /\ c.alpha3Code = last[i].alpha3Code
                              /\ c.population = last[i].population
                              /\ RegionNameOf(c) = last[i].region
            /\ \A n \in RegionsOf(one) \cup RegionsOf(last) :
                  Cardinality({r \in regions : r.name = n}) = 1

=============================================================================
